---- MODULE Spec2Model ----
(***************************************************************************)
(* Model of compare_algorithms.py: the three shortest-path engines         *)
(* (dijkstra_get_path, a_star_get_path, bellman_ford_get_path), the path   *)
(* evaluator (calculate_path_length, distance) and the comparison block of *)
(* __main__, run in the order __main__ runs them.                          *)
(*                                                                         *)
(* The station map is an input.  Stations carry integer coordinates taken  *)
(* from layouts whose pairwise distances are whole numbers, so math.sqrt   *)
(* is exact on them and floating-point sums equal the integer sums used    *)
(* here.  A station's links are a set of station names: Dijkstra and A*    *)
(* read a link as a station, Bellman-Ford looks it up in the map.          *)
(***************************************************************************)
EXTENDS Integers, Sequences, FiniteSets

VARIABLES
    position,                 \* Station.position of every station of the map
    links,                    \* Station.links of every station of the map
    start_station_name,
    end_station_name,
    pc,                       \* the place __main__ and the running engine are at
    open_set,                 \* the priority queue of Dijkstra and of A*
    best_known_costs,         \* Dijkstra's dictionary
    visited,                  \* A*'s visited set
    distances,                \* Bellman-Ford
    predecessors,             \* Bellman-Ford
    round,                    \* Bellman-Ford: relaxation rounds done
    negative_cycle,           \* Bellman-Ford returned from the negative-cycle branch
    path,                     \* Bellman-Ford: the path being reconstructed
    current,                  \* Bellman-Ford: the cursor of the reconstruction
    path_dijkstra,
    path_a_star,
    path_bellman_ford,
    path_length_dijkstra,
    path_length_a_star,
    path_length_bellman_ford,
    verdict                   \* the lines printed by the comparison block

vars == <<position, links, start_station_name, end_station_name, pc, open_set,
          best_known_costs, visited, distances, predecessors, round,
          negative_cycle, path, current, path_dijkstra, path_a_star,
          path_bellman_ford, path_length_dijkstra, path_length_a_star,
          path_length_bellman_ford, verdict>>

---------------------------------------------------------------------------
(* Bounds and inputs *)

\* At most this many pairs of stations are linked (one way or both ways).
MaxLinks == 4

\* The comparison block alone is run on path lengths 0..MaxPathLength.
MaxPathLength == 4

\* The keys of the map, in the map's iteration order.
map_keys == <<"A", "B", "C", "D">>

Stations == {map_keys[i] : i \in 1..Len(map_keys)}

\* Four stations on a line.
LineLayout == [n \in Stations |->
    CASE n = "A" -> <<0, 0>> [] n = "B" -> <<1, 0>>
      [] n = "C" -> <<5, 0>> [] n = "D" -> <<7, 0>>]

\* Two stations at the same place and a 3-4-5 triangle.
TriangleLayout == [n \in Stations |->
    CASE n = "A" -> <<0, 0>> [] n = "B" -> <<0, 0>>
      [] n = "C" -> <<3, 0>> [] n = "D" -> <<3, 4>>]

\* The corners of a 3 by 4 rectangle, whose diagonals are 5 long.
RectangleLayout == [n \in Stations |->
    CASE n = "A" -> <<0, 0>> [] n = "B" -> <<3, 0>>
      [] n = "C" -> <<3, 4>> [] n = "D" -> <<0, 4>>]

Layouts == {LineLayout, TriangleLayout, RectangleLayout}

StationPairs == {pr \in SUBSET Stations : Cardinality(pr) = 2}

\* A linked pair is linked from its smaller name, from its larger, or both ways.
Directions == {"both", "up", "down"}

Lo(pr) == CHOOSE a \in pr : \A b \in pr : a = b \/ \E i, j \in 1..Len(map_keys) :
                                   i < j /\ map_keys[i] = a /\ map_keys[j] = b
Hi(pr) == CHOOSE b \in pr : b # Lo(pr)

LinksOf(linked, dir) == [n \in Stations |->
    {m \in Stations : \E pr \in linked :
        /\ pr = {n, m} /\ n # m
        /\ \/ dir[pr] = "both"
           \/ dir[pr] = "up" /\ n = Lo(pr)
           \/ dir[pr] = "down" /\ n = Hi(pr)}]

None == "None"

\* float('inf'): no sum of distances reaches it, and inf + w = inf.
Inf == -1

---------------------------------------------------------------------------
(* distance, calculate_path_length *)

Sqrt(n) == CHOOSE r \in 0..n : r * r = n

distance(station1, station2) ==
    LET x1 == position[station1][1]
        y1 == position[station1][2]
        x2 == position[station2][1]
        y2 == position[station2][2]
    IN  Sqrt((x2 - x1) * (x2 - x1) + (y2 - y1) * (y2 - y1))

heuristic(node1, node2) == distance(node1, node2)

RECURSIVE LengthFrom(_, _)
LengthFrom(p, i) ==
    IF i > Len(p) - 1 THEN 0
    ELSE distance(p[i], p[i + 1]) + LengthFrom(p, i + 1)

calculate_path_length(p) == LengthFrom(p, 1)

---------------------------------------------------------------------------
(* The priority queue: heappop takes an entry of least cost.  Entries of   *)
(* equal cost are ordered by comparing stations, which the map's builder   *)
(* decides: any of them may come first.                                    *)

Entry(cost, station, p) == [cost |-> cost, station |-> station, path |-> p]

IsMin(e, heap) == e \in heap /\ \A o \in heap : e.cost <= o.cost

LocalsIdle ==
    /\ open_set = {}
    /\ best_known_costs = <<>>
    /\ visited = {}
    /\ distances = <<>>
    /\ predecessors = <<>>
    /\ round = 0
    /\ path = <<>>
    /\ current = None

Init ==
    /\ position \in Layouts
    /\ \E linked \in SUBSET StationPairs :
          /\ Cardinality(linked) <= MaxLinks
          /\ \E dir \in [linked -> Directions] : links = LinksOf(linked, dir)
    /\ start_station_name \in Stations
    /\ end_station_name \in Stations
    /\ pc = "main"
    /\ LocalsIdle
    /\ negative_cycle = FALSE
    /\ path_dijkstra = <<>>
    /\ path_a_star = <<>>
    /\ path_bellman_ford = <<>>
    /\ path_length_dijkstra = 0
    /\ path_length_a_star = 0
    /\ path_length_bellman_ford = 0
    /\ verdict = {}

inputs == <<position, links, start_station_name, end_station_name>>
results == <<path_dijkstra, path_a_star, path_bellman_ford, path_length_dijkstra,
             path_length_a_star, path_length_bellman_ford, verdict>>
bf_locals == <<distances, predecessors, round, path, current>>


---------------------------------------------------------------------------
(* dijkstra_get_path *)

DijkstraCall ==
    /\ pc = "main"
    /\ open_set' = {Entry(0, start_station_name, <<>>)}
    /\ best_known_costs' = [n \in {start_station_name} |-> 0]
    /\ pc' = "dijkstra"
    /\ UNCHANGED <<inputs, results, visited, bf_locals, negative_cycle>>

\* As ReturnedPath, but the destination itself is left off the path.
ReturnedPathWithoutDestination(e) == e.path

\* The path returned when the destination is popped.
ReturnedPath(e) == Append(e.path, e.station)

\* As DijkstraImproved, but a station already costed is never costed again.
DijkstraFirstSeenOnly(e) ==
    {n \in links[e.station] : n \notin DOMAIN best_known_costs}

\* The neighbours of the popped station that get a queue entry.
DijkstraImproved(e) ==
    {n \in links[e.station] :
        \/ n \notin DOMAIN best_known_costs
        \/ e.cost + distance(e.station, n) < best_known_costs[n]}

DijkstraReturn(p) ==
    /\ path_dijkstra' = p
    /\ path_length_dijkstra' = calculate_path_length(p)
    /\ open_set' = {}
    /\ best_known_costs' = <<>>
    /\ pc' = "a_star_call"
    /\ UNCHANGED <<inputs, visited, bf_locals, negative_cycle, path_a_star,
                   path_bellman_ford, path_length_a_star,
                   path_length_bellman_ford, verdict>>

DijkstraPop ==
    /\ pc = "dijkstra"
    /\ \E e \in open_set :
        /\ IsMin(e, open_set)
        /\ IF e.station = end_station_name
           THEN DijkstraReturn(ReturnedPath(e))
           ELSE LET improved == DijkstraImproved(e)
                    tentative_cost(n) == e.cost + distance(e.station, n)
                IN  /\ best_known_costs' =
                          [n \in DOMAIN best_known_costs \cup improved |->
                              IF n \in improved THEN tentative_cost(n)
                              ELSE best_known_costs[n]]
                    /\ open_set' = (open_set \ {e}) \cup
                          {Entry(tentative_cost(n), n, Append(e.path, e.station)) :
                              n \in improved}
                    /\ UNCHANGED <<inputs, results, pc, visited, bf_locals,
                                   negative_cycle>>

DijkstraExhausted ==
    /\ pc = "dijkstra"
    /\ open_set = {}
    /\ DijkstraReturn(<<>>)

---------------------------------------------------------------------------
(* a_star_get_path *)

AStarCall ==
    /\ pc = "a_star_call"
    /\ open_set' = {Entry(0, start_station_name, <<>>)}
    /\ visited' = {}
    /\ pc' = "a_star"
    /\ UNCHANGED <<inputs, results, best_known_costs, bf_locals, negative_cycle>>

\* The key of the entry pushed for neighbour n of the popped entry e.
heuristic_cost(e, n) ==
    LET tentative_cost == e.cost + distance(e.station, n)
    IN  tentative_cost + heuristic(n, end_station_name)

AStarReturn(p) ==
    /\ path_a_star' = p
    /\ path_length_a_star' = calculate_path_length(p)
    /\ open_set' = {}
    /\ visited' = {}
    /\ pc' = "bellman_ford_call"
    /\ UNCHANGED <<inputs, best_known_costs, bf_locals, negative_cycle,
                   path_dijkstra, path_bellman_ford, path_length_dijkstra,
                   path_length_bellman_ford, verdict>>

AStarPop ==
    /\ pc = "a_star"
    /\ \E e \in open_set :
        /\ IsMin(e, open_set)
        /\ IF e.station = end_station_name
           THEN AStarReturn(ReturnedPath(e))
           ELSE /\ IF e.station \in visited
                   THEN /\ open_set' = open_set \ {e}
                        /\ visited' = visited
                   ELSE /\ visited' = visited \cup {e.station}
                        /\ open_set' = (open_set \ {e}) \cup
                              {Entry(heuristic_cost(e, n), n,
                                     Append(e.path, e.station)) :
                                  n \in links[e.station] \ visited'}
                /\ UNCHANGED <<inputs, results, pc, best_known_costs, bf_locals,
                               negative_cycle>>

AStarExhausted ==
    /\ pc = "a_star"
    /\ open_set = {}
    /\ AStarReturn(<<>>)

---------------------------------------------------------------------------
(* bellman_ford_get_path *)

Plus(a, w) == IF a = Inf THEN Inf ELSE a + w

Less(a, b) == a # Inf /\ (b = Inf \/ a < b)

\* As Relaxes, but an equal distance relaxes too.
RelaxesOrEqual(du, edge_weight, dv) ==
    \/ Less(Plus(du, edge_weight), dv)
    \/ Plus(du, edge_weight) = dv

\* The test of a relaxation round.
Relaxes(du, edge_weight, dv) == Less(Plus(du, edge_weight), dv)

\* As relaxation_rounds, one round short.
relaxation_rounds_short == Len(map_keys) - 2

\* range(len(map) - 1)
relaxation_rounds == Len(map_keys) - 1

\* The links of one station relaxed, on distances d and predecessors p.
RelaxStation(st, u) ==
    LET upd == {v \in links[u] : Relaxes(st.d[u], distance(u, v), st.d[v])}
    IN  [d |-> [v \in Stations |->
                  IF v \in upd THEN Plus(st.d[u], distance(u, v)) ELSE st.d[v]],
         p |-> [v \in Stations |-> IF v \in upd THEN u ELSE st.p[v]]]

\* One pass over map.items(), from the i-th key on.
RECURSIVE RelaxFrom(_, _)
RelaxFrom(st, i) ==
    IF i > Len(map_keys) THEN st
    ELSE RelaxFrom(RelaxStation(st, map_keys[i]), i + 1)

\* The extra pass finds an edge that still relaxes.
StillRelaxes ==
    \E u \in Stations : \E v \in links[u] :
        Less(Plus(distances[u], distance(u, v)), distances[v])

BellmanFordCall ==
    /\ pc = "bellman_ford_call"
    /\ distances' = [n \in Stations |-> IF n = start_station_name THEN 0 ELSE Inf]
    /\ predecessors' = [n \in Stations |-> None]
    /\ round' = 0
    /\ pc' = "bf_relax"
    /\ UNCHANGED <<inputs, results, open_set, best_known_costs, visited,
                   negative_cycle, path, current>>

BellmanFordRound ==
    /\ pc = "bf_relax"
    /\ round < relaxation_rounds
    /\ LET st == RelaxFrom([d |-> distances, p |-> predecessors], 1)
       IN  /\ distances' = st.d
           /\ predecessors' = st.p
    /\ round' = round + 1
    /\ UNCHANGED <<inputs, results, pc, open_set, best_known_costs, visited,
                   negative_cycle, path, current>>

BellmanFordReturn(p) ==
    /\ path_bellman_ford' = p
    /\ path_length_bellman_ford' = calculate_path_length(p)
    /\ distances' = <<>>
    /\ predecessors' = <<>>
    /\ round' = 0
    /\ path' = <<>>
    /\ current' = None
    /\ pc' = "compare"
    /\ UNCHANGED <<inputs, open_set, best_known_costs, visited, path_dijkstra,
                   path_a_star, path_length_dijkstra, path_length_a_star,
                   verdict>>

BellmanFordCheck ==
    /\ pc = "bf_relax"
    /\ round >= relaxation_rounds
    /\ IF StillRelaxes
       THEN /\ negative_cycle' = TRUE
            /\ BellmanFordReturn(<<>>)
       ELSE /\ path' = <<>>
            /\ current' = end_station_name
            /\ pc' = "bf_walk"
            /\ UNCHANGED <<inputs, results, open_set, best_known_costs, visited,
                           distances, predecessors, round, negative_cycle>>

BellmanFordWalk ==
    /\ pc = "bf_walk"
    /\ IF current # None
       THEN /\ path' = <<current>> \o path
            /\ current' = predecessors[current]
            /\ UNCHANGED <<inputs, results, pc, open_set, best_known_costs,
                           visited, distances, predecessors, round,
                           negative_cycle>>
       ELSE /\ BellmanFordReturn(path)
            /\ UNCHANGED negative_cycle

---------------------------------------------------------------------------
(* The comparison block of __main__ *)

DijkstraShortest == "Dijkstra's found the shortest path."
AStarShortest == "A* found the shortest path."
BellmanFordShortest == "Bellman-Ford found the shortest path."
DijkstraLongest == "Dijkstra's found the longest path."
AStarLongest == "A* found the longest path."
BellmanFordLongest == "Bellman-Ford found the longest path."
Tie == "All algorithms found paths with the same length."

\* As Verdict, without the branch for A* finding the longest path.
VerdictWithoutAStarLongest(d, a, b) ==
    IF d < a /\ d < b THEN DijkstraShortest
    ELSE IF a < d /\ a < b THEN AStarShortest
    ELSE IF b < d /\ b < a THEN BellmanFordShortest
    ELSE IF d > a /\ d > b THEN DijkstraLongest
    ELSE IF b > d /\ b > a THEN BellmanFordLongest
    ELSE Tie

Verdict(d, a, b) ==
    IF d < a /\ d < b THEN DijkstraShortest
    ELSE IF a < d /\ a < b THEN AStarShortest
    ELSE IF b < d /\ b < a THEN BellmanFordShortest
    ELSE IF d > a /\ d > b THEN DijkstraLongest
    ELSE IF a > d /\ a > b THEN AStarLongest
    ELSE IF b > d /\ b > a THEN BellmanFordLongest
    ELSE Tie

Compare ==
    /\ pc = "compare"
    /\ verdict' = {Verdict(path_length_dijkstra, path_length_a_star,
                           path_length_bellman_ford)}
    /\ pc' = "done"
    /\ UNCHANGED <<inputs, open_set, best_known_costs, visited, bf_locals,
                   negative_cycle, path_dijkstra, path_a_star, path_bellman_ford,
                   path_length_dijkstra, path_length_a_star,
                   path_length_bellman_ford>>

---------------------------------------------------------------------------
(* The program: __main__ runs the three engines in turn, then compares. *)

Next ==
    \/ DijkstraCall
    \/ DijkstraPop
    \/ DijkstraExhausted
    \/ AStarCall
    \/ AStarPop
    \/ AStarExhausted
    \/ BellmanFordCall
    \/ BellmanFordRound
    \/ BellmanFordCheck
    \/ BellmanFordWalk
    \/ Compare

Spec == Init /\ [][Next]_vars

\* The comparison block on its own, on every triple of path lengths.
CompareInit ==
    /\ position = LineLayout
    /\ links = [n \in Stations |-> {}]
    /\ start_station_name = map_keys[1]
    /\ end_station_name = map_keys[1]
    /\ pc = "compare"
    /\ LocalsIdle
    /\ negative_cycle = FALSE
    /\ path_dijkstra = <<>>
    /\ path_a_star = <<>>
    /\ path_bellman_ford = <<>>
    /\ path_length_dijkstra \in 0..MaxPathLength
    /\ path_length_a_star \in 0..MaxPathLength
    /\ path_length_bellman_ford \in 0..MaxPathLength
    /\ verdict = {}

CompareNext == Compare

CompareSpec == CompareInit /\ [][CompareNext]_vars

---------------------------------------------------------------------------
(* What the claims are stated with *)

Range(p) == {p[i] : i \in 1..Len(p)}

NoRepeat(p) == \A i, j \in 1..Len(p) : i # j => p[i] # p[j]

\* The stations that following links from the stations of S leads to.
RECURSIVE LinkClosure(_)
LinkClosure(S) ==
    LET T == S \cup UNION {links[n] : n \in S}
    IN  IF T = S THEN S ELSE LinkClosure(T)

Reachable == end_station_name \in LinkClosure({start_station_name})

\* p goes from start to end along links.
FollowsLinks(p) ==
    /\ Len(p) >= 1
    /\ p[1] = start_station_name
    /\ p[Len(p)] = end_station_name
    /\ \A i \in 1..(Len(p) - 1) : p[i + 1] \in links[p[i]]

\* The link-following paths from start to end that repeat no station; with
\* distances that are never negative a shortest one is among them.
LinkPaths ==
    {p \in UNION {[1..k -> Stations] : k \in 1..Cardinality(Stations)} :
        FollowsLinks(p) /\ NoRepeat(p)}

ShortestLength ==
    CHOOSE l \in {calculate_path_length(p) : p \in LinkPaths} :
        \A p \in LinkPaths : l <= calculate_path_length(p)

SymmetricLinks == \A n, m \in Stations : m \in links[n] => n \in links[m]

Finished == pc = "done"

EnginePaths == {path_dijkstra, path_a_star, path_bellman_ford}

AllEqual(d, a, b) == d = a /\ a = b

\* Following predecessors from n for at most k steps ends at None.
RECURSIVE EndsWithin(_, _)
EndsWithin(n, k) ==
    \/ n = None
    \/ k > 0 /\ EndsWithin(predecessors[n], k - 1)

---------------------------------------------------------------------------
(* The claims *)

\* C1: on every map whose edge weights are the distances between the linked
\* stations, the path of a_star_get_path is as long as the path of
\* dijkstra_get_path.
C1_AStarAsShortAsDijkstra ==
    Finished => path_length_a_star = path_length_dijkstra

\* C2: the paths of dijkstra_get_path and bellman_ford_get_path are equally
\* long, and when some path follows links from start to end that length is the
\* least length of such a path.  (Checked for one-way links too.)
C2_DijkstraEqualsBellmanFord ==
    Finished =>
        /\ path_length_dijkstra = path_length_bellman_ford
        /\ Reachable =>
              /\ FollowsLinks(path_dijkstra)
              /\ FollowsLinks(path_bellman_ford)
              /\ path_length_dijkstra = ShortestLength

\* C2's case: symmetric links, several paths of different lengths from start to
\* end, and the two engines done.
C2_Witness ==
    /\ Finished
    /\ SymmetricLinks
    /\ start_station_name # end_station_name
    /\ \E p, q \in LinkPaths : calculate_path_length(p) < calculate_path_length(q)
    /\ Len(path_dijkstra) >= 3
    /\ path_length_dijkstra > 0

\* C3: when end is not reachable from start (start # end), each of the three
\* engines returns the empty path.
C3_UnreachableGivesEmptyPaths ==
    (Finished /\ start_station_name # end_station_name /\ ~Reachable) =>
        /\ path_dijkstra = <<>>
        /\ path_a_star = <<>>
        /\ path_bellman_ford = <<>>

\* C4: when start equals end, each engine returns exactly <<start>>, whatever
\* the links, and that path's length is 0.
C4_StartIsEnd ==
    (Finished /\ start_station_name = end_station_name) =>
        /\ path_dijkstra = <<start_station_name>>
        /\ path_a_star = <<start_station_name>>
        /\ path_bellman_ford = <<start_station_name>>
        /\ path_length_dijkstra = 0
        /\ path_length_a_star = 0
        /\ path_length_bellman_ford = 0

\* C4's case: start equals end, the station has links in both directions, one
\* of them of weight 0, and the engines are done.
C4_Witness ==
    /\ Finished
    /\ start_station_name = end_station_name
    /\ \E n \in links[start_station_name] :
          /\ start_station_name \in links[n]
          /\ distance(start_station_name, n) = 0
    /\ \E n \in links[start_station_name] : distance(start_station_name, n) > 0

\* C5: the comparison prints the tie line exactly when the three path lengths
\* are equal; when end is in another component than start it prints the tie.
C5_TieIffAllEqual ==
    Finished =>
        /\ verdict # {}
        /\ Tie \in verdict <=>
              AllEqual(path_length_dijkstra, path_length_a_star,
                       path_length_bellman_ford)
        /\ (start_station_name # end_station_name /\ ~Reachable) => verdict = {Tie}

\* C5's case: end in another component than start, and the tie printed.
C5_Witness ==
    /\ Finished
    /\ start_station_name # end_station_name
    /\ ~Reachable
    /\ links[start_station_name] # {}
    /\ links[end_station_name] # {}
    /\ verdict = {Tie}

\* C6: for every triple of path lengths, an algorithm strictly shorter than
\* both others is named as having found the shortest path and, separately, an
\* algorithm strictly longer than both others is named as having found the
\* longest path.
C6_ShortestAndLongestNamed ==
    Finished =>
        LET d == path_length_dijkstra
            a == path_length_a_star
            b == path_length_bellman_ford
        IN  /\ (d < a /\ d < b) => DijkstraShortest \in verdict
            /\ (a < d /\ a < b) => AStarShortest \in verdict
            /\ (b < d /\ b < a) => BellmanFordShortest \in verdict
            /\ (d > a /\ d > b) => DijkstraLongest \in verdict
            /\ (a > d /\ a > b) => AStarLongest \in verdict
            /\ (b > d /\ b > a) => BellmanFordLongest \in verdict

\* C7: Bellman-Ford's predecessor links form no cycle, so its backward walk
\* from end never revisits a station and ends, after at most as many steps as
\* there are stations, at a station with no predecessor.
C7_WalkNeverRevisits ==
    /\ pc \in {"bf_relax", "bf_walk"} =>
          \A n \in Stations : EndsWithin(n, Cardinality(Stations))
    /\ pc = "bf_walk" =>
          /\ NoRepeat(path)
          /\ current \notin Range(path)
          /\ Len(path) <= Cardinality(Stations)
          /\ EndsWithin(current, Cardinality(Stations) - Len(path))

\* C7's case: a walk that has ended after three stations or more, on a map
\* with a zero-weight link in both directions between stations it passes.
C7_Witness ==
    /\ pc = "bf_walk"
    /\ current = None
    /\ Len(path) >= 3
    /\ \E n, m \in Range(path) :
          n # m /\ m \in links[n] /\ n \in links[m] /\ distance(n, m) = 0

\* C8: every non-empty path an engine returns begins with start, ends with
\* end, and steps along links only.
C8_PathsFollowLinks ==
    Finished => \A p \in EnginePaths : p # <<>> => FollowsLinks(p)

\* C9: every entry a_star_get_path has pushed for a neighbour carries the
\* length of its path plus the distance from its station to end.
C9_KeyIsLengthPlusHeuristic ==
    pc = "a_star" =>
        \A e \in open_set : e.path # <<>> =>
            e.cost = calculate_path_length(Append(e.path, e.station))
                        + distance(e.station, end_station_name)

\* C10: after the relaxation rounds of bellman_ford_get_path no edge relaxes
\* any more, and the negative-cycle return is never taken.
C10_NoNegativeCycleBranch ==
    /\ ~negative_cycle
    /\ (pc = "bf_relax" /\ round >= relaxation_rounds) => ~StillRelaxes

\* C10's case: the rounds are over on a map where the farthest station lies
\* three links from start.
C10_Witness ==
    /\ pc = "bf_relax"
    /\ round >= relaxation_rounds
    /\ \E n \in Stations :
          /\ predecessors[n] # None
          /\ predecessors[predecessors[n]] # None
          /\ predecessors[predecessors[predecessors[n]]] = start_station_name

====
